---- MODULE Spec2Model ----
(***************************************************************************)
(* gotplans: the plan templates (planningService), the three agent         *)
(* recorders (researchService, executionService, deploymentService) and    *)
(* the "auto-start all tasks" workflow runner of PlanVisualization, the    *)
(* goal submission and sub-task toggling of App, and the research edge     *)
(* function.                                                               *)
(*                                                                         *)
(* Plan steps are numbered 1..plans in list order.  A recorder invocation  *)
(* is a record of `calls`; every `await` of the source is a point where    *)
(* the invocation is suspended, and it is resumed by SupabaseResolves (a   *)
(* response of the persistence collaborator or of the edge function) or by *)
(* TimeoutFires (a setTimeout callback).  The supabase client returns      *)
(* {data, error} and does not reject, so the response to a write is "ok"   *)
(* or "error".                                                             *)
(***************************************************************************)
EXTENDS Integers, Sequences, FiniteSets, TLC

\* ----------------------------------------------------------------- bounds
MaxSteps == 2        \* plan steps of the goal shown by PlanVisualization
MaxCalls == 2        \* recorder invocations in one behaviour
MaxRuns == 2         \* activations of handleAutoStartAll in one behaviour
MaxRows == 1         \* results the external search APIs give the research edge function
MaxWords == 2        \* words of a goal text or of a step title given to planningService
MaxSubTasks == 2     \* sub-tasks of a plan step
MaxToggles == 3      \* activations of handleToggleSubTask in one behaviour
MaxSubmits == 2      \* activations of handleGoalSubmit in one behaviour
MaxRepos == 2        \* repositories GitHub answers a search with
MaxIncoming == 2     \* results in an answer given to conductResearch

VARIABLES
    plans,               \* PlanVisualization prop: the number of plan steps
    showAutoStartModal,  \* React state of PlanVisualization
    isAutoRunning,
    currentAutoTask,
    currentAutoPhase,
    startedTasks,
    completedAutoTasks,
    autoPreferences,
    runs,                \* activations of handleAutoStartAll, oldest first
    calls,               \* recorder invocations, oldest first
    requests,            \* research_requests, execution_requests, deployment_requests
    results,             \* research_results, execution_results, deployment_results
    goal,                \* planningService: a goal text
    taskPlan,            \* what generateTaskPlan returned for it
    taskPlanAgain,       \* what a second call of generateTaskPlan returned for it
    planTitle,           \* planningService: a plan step title
    subTaskList,         \* what generateSubTasks returned for it
    slug,                \* what generateAutoDeploymentConfig derived from it
    subTasks,            \* App state: the completed flag of each sub-task of each step
    subTasksTable,       \* sub_tasks: the completed column
    toggles,             \* activations of handleToggleSubTask, oldest first
    appError,            \* App state: an error message is shown
    user,                \* useSupabaseAuth: a user is signed in
    showAuthModal,       \* App state
    isGenerating,
    currentGoal,         \* App state: the id of the goal shown, NoGoal for null
    submits,             \* activations of handleGoalSubmit, oldest first
    edgeDepth,           \* research-agent edge function: the depth of a request
    edgeFound,           \* the results its search methods collected, in order
    edgeResults,         \* the results it returned
    incomingResults,     \* conductResearch: data.results of the edge function's answer
    resultsToInsert      \* the rows conductResearch makes of them

uiVars == <<showAutoStartModal, isAutoRunning, currentAutoTask, currentAutoPhase,
            startedTasks, completedAutoTasks, autoPreferences>>
dbVars == <<requests, results>>
planVars == <<goal, taskPlan, taskPlanAgain, planTitle, subTaskList, slug>>
goalVars == <<user, showAuthModal, isGenerating, currentGoal, submits>>
appVars == <<subTasks, subTasksTable, toggles, appError, goalVars>>
edgeVars == <<edgeDepth, edgeFound, edgeResults, incomingResults, resultsToInsert>>
vars == <<plans, uiVars, runs, calls, dbVars, planVars, appVars, edgeVars>>

\* ------------------------------------------------------- request/result rows
\* Faulty variant: the row is created with the column default.
RequestRow_Pending(domain, planId) ==
    [domain |-> domain, plan_id |-> planId, status |-> "pending"]

RequestRow(domain, planId) ==
    [domain |-> domain, plan_id |-> planId, status |-> "in_progress"]

\* Faulty variant: the result row is not tagged to its request.
ResultRow_Untagged(requestId, kind, success) ==
    [request_id |-> 0, kind |-> kind, success |-> success]

\* Faulty variant: every result row is stored as a success.
ResultRow_AlwaysSuccess(requestId, kind, success) ==
    [request_id |-> requestId, kind |-> kind, success |-> TRUE]

ResultRow(requestId, kind, success) ==
    [request_id |-> requestId, kind |-> kind, success |-> success]

Rows(row, n) == [i \in 1..n |-> row]

SetStatus(id, status) == [requests EXCEPT ![id].status = status]

Eff(c, rq, rs) == [c |-> c, requests |-> rq, results |-> rs]

\* Faulty variant: whatever is returned passes for the saved generated rows.
Return_AsSaved(c, what) == [c EXCEPT !.pc = "done", !.outcome = "returned", !.ret = "saved"]

Return(c, what) == [c EXCEPT !.pc = "done", !.outcome = "returned", !.ret = what]

Throw(c) == [c EXCEPT !.pc = "done", !.outcome = "threw"]

\* A response of the collaborator: status "ok" | "error" | "nodata", and the
\* number n of rows the edge function returned.
Resp(status, n) == [status |-> status, n |-> n]

WriteResponses == {Resp("ok", 0), Resp("error", 0)}

\* The research-agent edge function.  searchSpecificDomains gives one result
\* for each of the first two (basic) or four domains, searchNews gives one;
\* searchDuckDuckGo, searchWikipedia and searchGitHub give what the external
\* APIs answer, nothing when they fail.
DomainCount(depth) == IF depth = "basic" THEN 2 ELSE 4

maxResults(depth) == IF depth = "basic" THEN 3 ELSE IF depth = "detailed" THEN 6 ELSE 10

\* The length of results.sort(...).slice(0, maxResults)
EdgeResultCount(depth, external) ==
    LET found == external + DomainCount(depth) + 1
    IN  IF found <= maxResults(depth) THEN found ELSE maxResults(depth)

\* What supabase.functions.invoke('research-agent', {depth}) resolves with:
\* an error, no data, or the results of the edge function.
InvokeResponses(depth) ==
    {Resp("error", 0), Resp("nodata", 0)}
    \cup {Resp("ok", EdgeResultCount(depth, external)) : external \in 0..MaxRows}

\* ------------------------------------------------------------ researchService
FallbackCount == 3

\* Faulty variant: an error of the fallback insert is thrown to the caller.
ReturnFallback_ChecksError(c, status) ==
    IF status = "ok" THEN Return(c, "fallbackSaved") ELSE Throw(c)

\* `return savedResults || fallbackResults`: the error of the fallback insert
\* is not read, and without saved rows the generated fallback is returned
ReturnFallback(c, status) ==
    Return(c, IF status = "ok" THEN "fallbackSaved" ELSE "fallbackMemory")

conductResearch(c, resp) ==
    CASE c.pc = "create" ->
            IF resp.status = "ok"
            THEN Eff([c EXCEPT !.pc = "generate", !.req = Len(requests) + 1],
                     Append(requests, RequestRow("research", c.plan)), results)
            ELSE Eff(Throw(c), requests, results)
      [] c.pc = "generate" ->
            IF resp.status = "ok"
            THEN Eff([c EXCEPT !.pc = "persist", !.n = resp.n], requests, results)
            ELSE Eff([c EXCEPT !.pc = "markFailed", !.caught = TRUE], requests, results)
      [] c.pc = "persist" ->
            IF resp.status = "ok"
            THEN Eff([c EXCEPT !.pc = "markCompleted"], requests,
                     results \o Rows(ResultRow(c.req, "result", TRUE), c.n))
            ELSE Eff([c EXCEPT !.pc = "markFailed", !.caught = TRUE,
                             !.saveFailed = TRUE], requests, results)
      [] c.pc = "markCompleted" ->
            Eff(Return(c, "saved"),
                IF resp.status = "ok" THEN SetStatus(c.req, "completed") ELSE requests,
                results)
      [] c.pc = "markFailed" ->
            \* generateFallbackResults has no await of its own: the fallback insert
            \* is issued before any other task runs
            Eff([c EXCEPT !.pc = "persistFallback", !.n = FallbackCount],
                IF resp.status = "ok" THEN SetStatus(c.req, "failed") ELSE requests,
                results)
      [] c.pc = "persistFallback" ->
            Eff(ReturnFallback(c, resp.status), requests,
                IF resp.status = "ok"
                THEN results \o Rows(ResultRow(c.req, "fallback", TRUE), FallbackCount)
                ELSE results)

\* ----------------------------------------------------------- executionService
ExecutionTypes ==
    {"code_generation", "script_execution", "api_call", "file_creation",
     "environment_setup"}

FileCount == 2

\* The number of results performExecution resolves with; 0 stands for its
\* default branch, which throws.
performExecution(executionType) ==
    CASE executionType = "code_generation" -> 1
      [] executionType = "script_execution" -> 1
      [] executionType = "api_call" -> 1
      [] executionType = "file_creation" -> FileCount
      [] executionType = "environment_setup" -> 1
      [] OTHER -> 0

\* Faulty variant: the catch block returns instead of rethrowing.
RethrowExecutionError_Swallows(c) == Return(c, "empty")

\* `throw error` at the end of executeTask's catch block
RethrowExecutionError(c) == Throw(c)

executeTask(c, resp) ==
    CASE c.pc = "create" ->
            IF resp.status = "ok"
            THEN Eff([c EXCEPT !.pc = "generate", !.req = Len(requests) + 1],
                     Append(requests, RequestRow("execution", c.plan)), results)
            ELSE Eff(Throw(c), requests, results)
      [] c.pc = "generate" ->
            IF performExecution(c.arg) > 0
            THEN Eff([c EXCEPT !.pc = "persist", !.n = performExecution(c.arg)],
                     requests, results)
            ELSE Eff([c EXCEPT !.pc = "storeError", !.caught = TRUE], requests, results)
      [] c.pc = "persist" ->
            IF resp.status = "ok"
            THEN Eff([c EXCEPT !.pc = "markCompleted"], requests,
                     results \o Rows(ResultRow(c.req, "result", TRUE), c.n))
            ELSE Eff([c EXCEPT !.pc = "storeError", !.caught = TRUE,
                             !.saveFailed = TRUE], requests, results)
      [] c.pc = "markCompleted" ->
            Eff(Return(c, "saved"),
                IF resp.status = "ok" THEN SetStatus(c.req, "completed") ELSE requests,
                results)
      [] c.pc = "storeError" ->
            Eff([c EXCEPT !.pc = "markFailed"], requests,
                IF resp.status = "ok"
                THEN Append(results, ResultRow(c.req, "error", FALSE))
                ELSE results)
      [] c.pc = "markFailed" ->
            Eff(RethrowExecutionError(c),
                IF resp.status = "ok" THEN SetStatus(c.req, "failed") ELSE requests,
                results)

\* ---------------------------------------------------------- deploymentService
DeploymentTypes ==
    {"netlify_static", "vercel_static", "github_pages", "custom_hosting"}

\* Whether performDeployment resolves (every provider resolves with
\* success: true); its default branch throws.
performDeployment(deploymentType) == deploymentType \in DeploymentTypes

deployProject(c, resp) ==
    CASE c.pc = "create" ->
            IF resp.status = "ok"
            THEN Eff([c EXCEPT !.pc = "generate", !.req = Len(requests) + 1],
                     Append(requests, RequestRow("deployment", c.plan)), results)
            ELSE Eff(Throw(c), requests, results)
      [] c.pc = "generate" ->
            IF performDeployment(c.arg)
            THEN Eff([c EXCEPT !.pc = "persist", !.n = 1], requests, results)
            ELSE Eff([c EXCEPT !.pc = "storeError", !.caught = TRUE], requests, results)
      [] c.pc = "persist" ->
            IF resp.status = "ok"
            THEN Eff([c EXCEPT !.pc = "markCompleted"], requests,
                     Append(results, ResultRow(c.req, "result", TRUE)))
            ELSE Eff([c EXCEPT !.pc = "storeError", !.caught = TRUE,
                             !.saveFailed = TRUE], requests, results)
      [] c.pc = "markCompleted" ->
            Eff(Return(c, "saved"),
                IF resp.status = "ok" THEN SetStatus(c.req, "completed") ELSE requests,
                results)
      [] c.pc = "storeError" ->
            IF resp.status = "ok"
            THEN Eff([c EXCEPT !.pc = "markFailed", !.errorData = TRUE], requests,
                     Append(results, ResultRow(c.req, "error", FALSE)))
            ELSE Eff([c EXCEPT !.pc = "markFailed", !.errorData = FALSE],
                     requests, results)
      [] c.pc = "markFailed" ->
            Eff(IF c.errorData THEN Return(c, "errorRow") ELSE Throw(c),
                IF resp.status = "ok" THEN SetStatus(c.req, "failed") ELSE requests,
                results)

\* ------------------------------------------------- a recorder invocation
NewCall(domain, planId, caller, arg) ==
    [domain |-> domain, plan |-> planId, caller |-> caller, arg |-> arg,
     pc |-> "create", req |-> 0, n |-> 0, caught |-> FALSE, saveFailed |-> FALSE,
     errorData |-> FALSE, outcome |-> "running", ret |-> "none"]

\* Faulty variant: a creation that failed is recorded as a failed request.
Recorder_RecordsFailedCreation(c, resp) ==
    IF c.pc = "create" /\ resp.status # "ok"
    THEN Eff(Throw(c),
             Append(requests, [RequestRow(c.domain, c.plan) EXCEPT !.status = "failed"]),
             results)
    ELSE CASE c.domain = "research" -> conductResearch(c, resp)
           [] c.domain = "execution" -> executeTask(c, resp)
           [] c.domain = "deployment" -> deployProject(c, resp)

Recorder(c, resp) ==
    CASE c.domain = "research" -> conductResearch(c, resp)
      [] c.domain = "execution" -> executeTask(c, resp)
      [] c.domain = "deployment" -> deployProject(c, resp)

\* generateCode, deployToNetlify and the like resolve from a setTimeout callback
OnTimer(c) == c.pc = "generate" /\ c.domain \in {"execution", "deployment"}

OnNetwork(c) == c.pc # "done" /\ ~OnTimer(c)

ResponsesAt(c) ==
    IF c.domain = "research" /\ c.pc = "generate"
    THEN InvokeResponses(c.arg)
    ELSE WriteResponses

\* ------------------------------------------- PlanVisualization: the runner
NoTask == 0

Phases == <<"research", "execution", "deployment">>

Preferences(research, execution, deployment, pause, provider) ==
    [enableResearch |-> research, enableExecution |-> execution,
     enableDeployment |-> deployment, pauseBetweenTasks |-> pause,
     deploymentProvider |-> provider]

\* What the user may submit from AutoStartModal: its initial state (research
\* and execution, no deployment, pause between tasks) and other settings of
\* the check boxes.  autoProgressDelay, researchDepth and executionMode only
\* set the length of a delay and the text of a query.
PreferenceChoices ==
    { Preferences(TRUE, TRUE, FALSE, TRUE, "netlify_static"),
      Preferences(TRUE, TRUE, TRUE, TRUE, "netlify_static"),
      Preferences(TRUE, TRUE, TRUE, FALSE, "vercel_static"),
      Preferences(FALSE, FALSE, TRUE, FALSE, "github_pages") }

Enabled(preferences, phase) ==
    CASE phase = "research" -> preferences.enableResearch
      [] phase = "execution" -> preferences.enableExecution
      [] phase = "deployment" -> preferences.enableDeployment

PhaseArg(preferences, phase) ==
    CASE phase = "research" -> "detailed"
      [] phase = "execution" -> "code_generation"
      [] phase = "deployment" -> preferences.deploymentProvider

\* The React state the loop of handleAutoStartAll writes.
Ui == [isAutoRunning |-> isAutoRunning, currentAutoTask |-> currentAutoTask,
       currentAutoPhase |-> currentAutoPhase,
       completedAutoTasks |-> completedAutoTasks]

\* Faulty variant: the handler sees the flag it has just set.
ClosureIsAutoRunning_Set == TRUE

\* The value `isAutoRunning` has inside handleAutoStartAll.  It is the const
\* that useState returned in the render that created the handler, so it is
\* the state as of the last render before the click: setIsAutoRunning(true)
\* in the handler schedules a render and does not rebind it.
ClosureIsAutoRunning == isAutoRunning

\* An activation of handleAutoStartAll: its parameter, its closure's
\* isAutoRunning, the loop position (step i, phase number p), where it is
\* suspended, the recorder invocations it has made, the phases after which it
\* awaited delay(autoProgressDelay * 1000), the steps after which it awaited
\* delay(2000), and whether a stop signal was given before it ended.
NewRun(preferences) ==
    [preferences |-> preferences, isAutoRunning |-> ClosureIsAutoRunning,
     i |-> 1, p |-> 0, pc |-> "start", log |-> <<>>, delays |-> <<>>,
     pauses |-> <<>>, stopped |-> FALSE]

Out(ui, run, call) == [ui |-> ui, run |-> run, call |-> call]

\* Faulty variant: the reset leaves isAutoRunning set.
ResetAutoState_KeepsRunning(ui) ==
    [ui EXCEPT !.currentAutoTask = NoTask, !.currentAutoPhase = "null"]

\* "Reset auto-execution state" at the end of handleAutoStartAll
ResetAutoState(ui) ==
    [ui EXCEPT !.isAutoRunning = FALSE, !.currentAutoTask = NoTask,
               !.currentAutoPhase = "null"]

\* handleAutoStartAll from a point of its loop up to its next await.
\* p = 0: the head of the iteration for step i; p = 1..3: the test of phase p
\* of step i; p = 4: after the phases of step i.  r is the activation.
RECURSIVE LoopFrom(_, _, _, _, _)
LoopFrom(ui, run, r, i, p) ==
    IF p = 0
    THEN IF i > plans \/ ~run.isAutoRunning
         THEN Out(ResetAutoState(ui), [run EXCEPT !.pc = "done", !.i = i, !.p = p], <<>>)
         ELSE LoopFrom([ui EXCEPT !.currentAutoTask = i], run, r, i, 1)
    ELSE IF p <= Len(Phases)
    THEN IF Enabled(run.preferences, Phases[p])
         THEN Out([ui EXCEPT !.currentAutoPhase = Phases[p]],
                  [run EXCEPT !.pc = "call", !.i = i, !.p = p,
                              !.log = Append(@, <<i, Phases[p]>>)],
                  <<NewCall(Phases[p], i, r, PhaseArg(run.preferences, Phases[p]))>>)
         ELSE LoopFrom(ui, run, r, i, p + 1)
    ELSE IF run.preferences.pauseBetweenTasks /\ i # plans
    THEN Out([ui EXCEPT !.completedAutoTasks = @ \cup {i}],
             [run EXCEPT !.pc = "pause", !.i = i, !.p = p,
                         !.pauses = Append(@, i)], <<>>)
    ELSE LoopFrom([ui EXCEPT !.completedAutoTasks = @ \cup {i}], run, r, i + 1, 0)

\* The awaited recorder call settled: `await delay(...)` after a return, the
\* catch of the step and the next iteration after a throw.
AfterCall(ui, run, r, outcome) ==
    IF outcome = "returned"
    THEN Out(ui, [run EXCEPT !.pc = "delay",
                             !.delays = Append(@, <<run.i, Phases[run.p]>>)], <<>>)
    ELSE LoopFrom(ui, run, r, run.i + 1, 0)

\* The awaited delay elapsed.
AfterDelay(ui, run, r) ==
    IF run.pc = "delay"
    THEN LoopFrom(ui, run, r, run.i, run.p + 1)
    ELSE LoopFrom(ui, run, r, run.i + 1, 0)

\* The loop's writes reach the React state.
Commit(out) ==
    /\ isAutoRunning' = out.ui.isAutoRunning
    /\ currentAutoTask' = out.ui.currentAutoTask
    /\ currentAutoPhase' = out.ui.currentAutoPhase
    /\ completedAutoTasks' = out.ui.completedAutoTasks

\* Faulty variant: starting the run ticks every sub-task.
handleAutoStartAll_CompletesSubTasks(preferences) ==
    LET r == Len(runs) + 1
        out == LoopFrom([Ui EXCEPT !.isAutoRunning = TRUE], NewRun(preferences), r, 1, 0)
    IN  /\ Len(calls) + Len(out.call) <= MaxCalls
        /\ autoPreferences' = <<preferences>>
        /\ startedTasks' = 1..plans
        /\ Commit(out)
        /\ runs' = Append(runs, out.run)
        /\ calls' = calls \o out.call
        /\ subTasks' = [step \in DOMAIN subTasks |-> [j \in DOMAIN subTasks[step] |-> TRUE]]
        /\ UNCHANGED <<subTasksTable, toggles, appError, goalVars>>

\* The handler calls no setter of App and no onToggleSubTask.
handleAutoStartAll(preferences) ==
    LET r == Len(runs) + 1
        out == LoopFrom([Ui EXCEPT !.isAutoRunning = TRUE], NewRun(preferences), r, 1, 0)
    IN  /\ Len(calls) + Len(out.call) <= MaxCalls
        /\ autoPreferences' = <<preferences>>
        /\ startedTasks' = 1..plans
        /\ Commit(out)
        /\ runs' = Append(runs, out.run)
        /\ calls' = calls \o out.call
        /\ UNCHANGED appVars

stopAutoExecution ==
    /\ isAutoRunning' = FALSE
    /\ currentAutoTask' = NoTask
    /\ currentAutoPhase' = "null"
    /\ runs' = [r \in 1..Len(runs) |->
                    IF runs[r].pc = "done" THEN runs[r] ELSE [runs[r] EXCEPT !.stopped = TRUE]]
    /\ UNCHANGED <<showAutoStartModal, startedTasks, completedAutoTasks,
                   autoPreferences, calls>>

\* The header button: "Stop" while isAutoRunning is rendered true, "Start All
\* Tasks" otherwise.  The open modal covers it.
ToolbarButtonClick ==
    /\ ~showAutoStartModal
    /\ IF isAutoRunning
       THEN stopAutoExecution
       ELSE /\ showAutoStartModal' = TRUE
            /\ UNCHANGED <<isAutoRunning, currentAutoTask, currentAutoPhase,
                           startedTasks, completedAutoTasks, autoPreferences,
                           runs, calls>>
    /\ UNCHANGED <<plans, dbVars, planVars, appVars, edgeVars>>

AutoStartModalClose ==
    /\ showAutoStartModal
    /\ showAutoStartModal' = FALSE
    /\ UNCHANGED <<plans, isAutoRunning, currentAutoTask, currentAutoPhase,
                   startedTasks, completedAutoTasks, autoPreferences, runs, calls,
                   dbVars, planVars, appVars, edgeVars>>

\* AutoStartModal's handleSubmit: onStartAll(preferences), then onClose().
AutoStartModalSubmit ==
    /\ showAutoStartModal
    /\ Len(runs) < MaxRuns
    /\ \E preferences \in PreferenceChoices : handleAutoStartAll(preferences)
    /\ showAutoStartModal' = FALSE
    /\ UNCHANGED <<plans, dbVars, planVars, edgeVars>>

\* ------------------------------------------------ the agent modals' handlers
ExecutionTypeChoices == {"code_generation", "file_creation"}

DeploymentTypeChoices == {"netlify_static"}

\* isResearching, isExecuting, isDeploying: the handler's call is in flight
Busy(domain) ==
    \E k \in 1..Len(calls) :
        calls[k].caller = 0 /\ calls[k].domain = domain /\ calls[k].outcome = "running"

AgentCall(domain, planId, arg) ==
    /\ ~Busy(domain)
    /\ Len(calls) < MaxCalls
    /\ calls' = Append(calls, NewCall(domain, planId, 0, arg))
    /\ UNCHANGED <<plans, uiVars, runs, dbVars, planVars, appVars, edgeVars>>

ResearchDepths == {"basic", "detailed", "comprehensive"}

handleResearch ==
    \E planId \in 1..plans, depth \in ResearchDepths : AgentCall("research", planId, depth)

handleExecution ==
    \E planId \in 1..plans, selectedType \in ExecutionTypeChoices :
        AgentCall("execution", planId, selectedType)

handleDeployment ==
    \E planId \in 1..plans, selectedProvider \in DeploymentTypeChoices :
        AgentCall("deployment", planId, selectedProvider)

\* ------------------------------------------------------- resuming an await
\* Recorder invocation k resumes with resp; when it settles, its caller
\* resumes: the runner activation that awaits it, or an agent modal's handler
\* (whose finally clears the busy flag).
ResumeCall(k, resp) ==
    LET e == Recorder(calls[k], resp)
        c == e.c
    IN  /\ requests' = e.requests
        /\ results' = e.results
        /\ IF c.outcome # "running" /\ c.caller > 0
           THEN LET out == AfterCall(Ui, runs[c.caller], c.caller, c.outcome)
                IN  /\ Len(calls) + Len(out.call) <= MaxCalls
                    /\ Commit(out)
                    /\ runs' = [runs EXCEPT ![c.caller] = out.run]
                    /\ calls' = [calls EXCEPT ![k] = c] \o out.call
           ELSE /\ calls' = [calls EXCEPT ![k] = c]
                /\ UNCHANGED <<isAutoRunning, currentAutoTask, currentAutoPhase,
                               completedAutoTasks, runs>>
        /\ UNCHANGED <<plans, showAutoStartModal, startedTasks, autoPreferences,
                       planVars, appVars, edgeVars>>

ResumeRun(r) ==
    LET out == AfterDelay(Ui, runs[r], r)
    IN  /\ Len(calls) + Len(out.call) <= MaxCalls
        /\ Commit(out)
        /\ runs' = [runs EXCEPT ![r] = out.run]
        /\ calls' = calls \o out.call
        /\ UNCHANGED <<plans, showAutoStartModal, startedTasks, autoPreferences,
                       dbVars, planVars, appVars, edgeVars>>

SupabaseResolves ==
    \E k \in 1..Len(calls) :
        /\ OnNetwork(calls[k])
        /\ \E resp \in ResponsesAt(calls[k]) : ResumeCall(k, resp)

Timers ==
    {[of |-> "call", id |-> k] : k \in {j \in 1..Len(calls) : OnTimer(calls[j])}}
    \cup {[of |-> "run", id |-> r] :
            r \in {j \in 1..Len(runs) : runs[j].pc \in {"delay", "pause"}}}

TimeoutFires ==
    \E t \in Timers :
        IF t.of = "call" THEN ResumeCall(t.id, Resp("ok", 0)) ELSE ResumeRun(t.id)

\* ------------------------------------------------------------ planningService
UpperCase == "ABCDEFGHIJKLMNOPQRSTUVWXYZ"

LowerCase == "abcdefghijklmnopqrstuvwxyz"

CharAt(s, i) == SubSeq(s, i, i)

\* String.prototype.toLowerCase on the characters the inputs are written in
LowerChar(ch) ==
    IF \E i \in 1..Len(UpperCase) : CharAt(UpperCase, i) = ch
    THEN CharAt(LowerCase, CHOOSE i \in 1..Len(UpperCase) : CharAt(UpperCase, i) = ch)
    ELSE ch

RECURSIVE toLowerCase(_)
toLowerCase(s) ==
    IF Len(s) = 0 THEN "" ELSE LowerChar(CharAt(s, 1)) \o toLowerCase(SubSeq(s, 2, Len(s)))

\* String.prototype.includes
includes(s, search) ==
    \E i \in 1..(Len(s) - Len(search) + 1) : SubSeq(s, i, i + Len(search) - 1) = search

Plan(title, description, order, duration, priority, status) ==
    [title |-> title, description |-> description, sequence_order |-> order,
     estimated_duration |-> duration, priority |-> priority, status |-> status]

SubTask(title, description, order, completed) ==
    [title |-> title, description |-> description, sequence_order |-> order,
     completed |-> completed]

BusinessPlans ==
    << Plan("Market Research & Validation",
            "Research your target market, validate your business idea, and analyze competitors",
            1, "2-3 weeks", "high", "pending"),
       Plan("Business Plan Development",
            "Create a comprehensive business plan including financial projections and strategy",
            2, "1-2 weeks", "high", "pending"),
       Plan("Legal Structure & Registration",
            "Choose business structure, register your business, and handle legal requirements",
            3, "1 week", "medium", "pending"),
       Plan("Product/Service Development",
            "Develop your minimum viable product or service offering",
            4, "4-8 weeks", "high", "pending"),
       Plan("Marketing & Launch Strategy",
            "Develop marketing materials, build online presence, and plan your launch",
            5, "2-3 weeks", "medium", "pending") >>

LearningPlans ==
    << Plan("Foundation & Prerequisites",
            "Establish fundamental knowledge and ensure you have necessary prerequisites",
            1, "1-2 weeks", "high", "pending"),
       Plan("Structured Learning Path",
            "Follow a systematic curriculum with hands-on practice and projects",
            2, "8-12 weeks", "high", "pending"),
       Plan("Practical Application",
            "Build real projects to apply your knowledge and create a portfolio",
            3, "4-6 weeks", "medium", "pending"),
       Plan("Advanced Topics",
            "Dive deeper into specialized areas and advanced concepts",
            4, "3-4 weeks", "medium", "pending"),
       Plan("Community & Networking",
            "Join communities, attend events, and build professional connections",
            5, "Ongoing", "low", "pending") >>

TravelPlans ==
    << Plan("Destination Research & Planning",
            "Research destinations, create itinerary, and plan activities",
            1, "1-2 weeks", "high", "pending"),
       Plan("Budget Planning & Booking",
            "Set budget, book flights, accommodations, and major activities",
            2, "1 week", "high", "pending"),
       Plan("Documentation & Preparation",
            "Handle passports, visas, travel insurance, and packing preparation",
            3, "2-3 weeks", "medium", "pending"),
       Plan("Final Preparations",
            "Complete packing, arrange transportation, and handle last-minute details",
            4, "3-5 days", "medium", "pending") >>

EventPlans ==
    << Plan("Event Concept & Planning",
            "Define event goals, theme, target audience, and initial planning",
            1, "1 week", "high", "pending"),
       Plan("Venue & Date Selection",
            "Research and book venue, set date, and handle initial logistics",
            2, "1-2 weeks", "high", "pending"),
       Plan("Vendor Coordination",
            "Book catering, entertainment, equipment, and other necessary services",
            3, "2-3 weeks", "medium", "pending"),
       Plan("Marketing & Promotion",
            "Create promotional materials, manage registrations, and build awareness",
            4, "3-4 weeks", "medium", "pending"),
       Plan("Final Preparations & Execution",
            "Handle final details, coordinate day-of logistics, and execute the event",
            5, "1 week", "high", "pending") >>

GenericPlans ==
    << Plan("Goal Analysis & Requirements",
            "Break down the goal into specific requirements and success criteria",
            1, "2-3 days", "high", "pending"),
       Plan("Resource Planning",
            "Identify and secure necessary resources, tools, and support",
            2, "3-5 days", "high", "pending"),
       Plan("Implementation Phase",
            "Execute the main work required to achieve your goal",
            3, "2-4 weeks", "high", "pending"),
       Plan("Review & Optimization",
            "Review progress, make adjustments, and optimize your approach",
            4, "3-5 days", "medium", "pending"),
       Plan("Completion & Follow-up",
            "Finalize deliverables and plan for maintenance or next steps",
            5, "1-2 days", "medium", "pending") >>

MarketResearchTasks ==
    << SubTask("Define target customer persona",
               "Create detailed profiles of your ideal customers", 1, FALSE),
       SubTask("Conduct customer interviews",
               "Interview 10-15 potential customers about their needs", 2, FALSE),
       SubTask("Analyze competitor landscape",
               "Research direct and indirect competitors", 3, FALSE),
       SubTask("Validate market size",
               "Estimate total addressable market and demand", 4, FALSE),
       SubTask("Document findings",
               "Compile research into actionable insights", 5, FALSE) >>

BusinessPlanTasks ==
    << SubTask("Executive summary",
               "Write compelling overview of your business", 1, FALSE),
       SubTask("Financial projections",
               "Create 3-year revenue and expense forecasts", 2, FALSE),
       SubTask("Marketing strategy",
               "Define how you'll reach and acquire customers", 3, FALSE),
       SubTask("Operations plan",
               "Outline how your business will operate day-to-day", 4, FALSE),
       SubTask("Risk analysis",
               "Identify potential risks and mitigation strategies", 5, FALSE) >>

FoundationTasks ==
    << SubTask("Assess current knowledge",
               "Take assessment tests to identify knowledge gaps", 1, FALSE),
       SubTask("Set up learning environment",
               "Install necessary tools and software", 2, FALSE),
       SubTask("Gather learning resources",
               "Collect books, courses, and online materials", 3, FALSE),
       SubTask("Create study schedule",
               "Plan daily/weekly study time blocks", 4, FALSE),
       SubTask("Join learning community",
               "Find online forums or local groups", 5, FALSE) >>

DestinationTasks ==
    << SubTask("Research destinations",
               "Compare different travel destinations and attractions", 1, FALSE),
       SubTask("Check travel requirements",
               "Verify visa, vaccination, and documentation needs", 2, FALSE),
       SubTask("Plan daily itinerary",
               "Create day-by-day activity schedule", 3, FALSE),
       SubTask("Research local customs",
               "Learn about culture, etiquette, and local practices", 4, FALSE),
       SubTask("Create packing checklist",
               "List all items needed for the trip", 5, FALSE) >>

GenericTasks ==
    << SubTask("Define specific objectives",
               "Set clear, measurable goals for this phase", 1, FALSE),
       SubTask("Gather required resources",
               "Collect all necessary tools, information, and materials", 2, FALSE),
       SubTask("Create action timeline",
               "Break down work into daily/weekly milestones", 3, FALSE),
       SubTask("Execute planned activities",
               "Complete the main work items for this phase", 4, FALSE),
       SubTask("Review and document progress",
               "Assess results and document lessons learned", 5, FALSE) >>

\* Faulty variant: the travel group is tested before the learning group.
analyzeGoalAndCreatePlans_TravelFirst(goalText) ==
    LET lowerGoal == toLowerCase(goalText)
    IN  IF includes(lowerGoal, "business") \/ includes(lowerGoal, "startup")
            \/ includes(lowerGoal, "company")
        THEN BusinessPlans
        ELSE IF includes(lowerGoal, "travel") \/ includes(lowerGoal, "vacation")
                \/ includes(lowerGoal, "trip")
        THEN TravelPlans
        ELSE IF includes(lowerGoal, "learn") \/ includes(lowerGoal, "study")
                \/ includes(lowerGoal, "development")
        THEN LearningPlans
        ELSE IF includes(lowerGoal, "event") \/ includes(lowerGoal, "party")
                \/ includes(lowerGoal, "fundrais")
        THEN EventPlans
        ELSE GenericPlans

analyzeGoalAndCreatePlans(goalText) ==
    LET lowerGoal == toLowerCase(goalText)
    IN  IF includes(lowerGoal, "business") \/ includes(lowerGoal, "startup")
            \/ includes(lowerGoal, "company")
        THEN BusinessPlans
        ELSE IF includes(lowerGoal, "learn") \/ includes(lowerGoal, "study")
                \/ includes(lowerGoal, "development")
        THEN LearningPlans
        ELSE IF includes(lowerGoal, "travel") \/ includes(lowerGoal, "vacation")
                \/ includes(lowerGoal, "trip")
        THEN TravelPlans
        ELSE IF includes(lowerGoal, "event") \/ includes(lowerGoal, "party")
                \/ includes(lowerGoal, "fundrais")
        THEN EventPlans
        ELSE GenericPlans

\* Faulty variant: the destination/research group is tested first.
generateSubTasks_ResearchFirst(title, description) ==
    LET lowerTitle == toLowerCase(title)
    IN  IF includes(lowerTitle, "destination") \/ includes(lowerTitle, "research")
        THEN DestinationTasks
        ELSE IF includes(lowerTitle, "market research") \/ includes(lowerTitle, "validation")
        THEN MarketResearchTasks
        ELSE IF includes(lowerTitle, "business plan")
        THEN BusinessPlanTasks
        ELSE IF includes(lowerTitle, "foundation") \/ includes(lowerTitle, "prerequisite")
        THEN FoundationTasks
        ELSE GenericTasks

generateSubTasks(title, description) ==
    LET lowerTitle == toLowerCase(title)
    IN  IF includes(lowerTitle, "market research") \/ includes(lowerTitle, "validation")
        THEN MarketResearchTasks
        ELSE IF includes(lowerTitle, "business plan")
        THEN BusinessPlanTasks
        ELSE IF includes(lowerTitle, "foundation") \/ includes(lowerTitle, "prerequisite")
        THEN FoundationTasks
        ELSE IF includes(lowerTitle, "destination") \/ includes(lowerTitle, "research")
        THEN DestinationTasks
        ELSE GenericTasks

\* Faulty variant: the last plan of the list gets no sub-tasks.
generateTaskPlan_SkipsLastPlan(goalText) ==
    LET planList == analyzeGoalAndCreatePlans(goalText)
    IN  [plans |-> planList,
         subTasks |-> [index \in 0..(Len(planList) - 2) |->
                          generateSubTasks(planList[index + 1].title,
                                           planList[index + 1].description)]]

\* Faulty variant: a call made after another returns the plans without
\* sub-tasks.
generateTaskPlan_RemembersCall(goalText) ==
    LET planList == analyzeGoalAndCreatePlans(goalText)
    IN  [plans |-> planList,
         subTasks |-> IF taskPlan = [plans |-> <<>>, subTasks |-> <<>>]
                      THEN [index \in 0..(Len(planList) - 1) |->
                               generateSubTasks(planList[index + 1].title,
                                                planList[index + 1].description)]
                      ELSE <<>>]

\* subTasks is keyed by the index of the plan in the list, from 0
generateTaskPlan(goalText) ==
    LET planList == analyzeGoalAndCreatePlans(goalText)
    IN  [plans |-> planList,
         subTasks |-> [index \in 0..(Len(planList) - 1) |->
                          generateSubTasks(planList[index + 1].title,
                                           planList[index + 1].description)]]

\* --------------------------------- PlanVisualization: the deployment slug
SlugLimit == 30

Digits == "0123456789"

\* String.prototype.replace(/[^a-z0-9]/g, '-')
RECURSIVE replaceNonAlphanumeric(_)
replaceNonAlphanumeric(s) ==
    IF Len(s) = 0
    THEN ""
    ELSE (IF includes(LowerCase \o Digits, CharAt(s, 1)) THEN CharAt(s, 1) ELSE "-")
         \o replaceNonAlphanumeric(SubSeq(s, 2, Len(s)))

\* String.prototype.substring(0, end)
substring(s, end) == IF Len(s) <= end THEN s ELSE SubSeq(s, 1, end)

\* Faulty variant: runs of replaced characters are collapsed after truncation.
RECURSIVE Collapse(_)
Collapse(s) ==
    IF Len(s) < 2
    THEN s
    ELSE IF CharAt(s, 1) = "-" /\ CharAt(s, 2) = "-"
    THEN Collapse(SubSeq(s, 2, Len(s)))
    ELSE CharAt(s, 1) \o Collapse(SubSeq(s, 2, Len(s)))

planSlug_Collapsed(title) ==
    Collapse(substring(replaceNonAlphanumeric(toLowerCase(title)), SlugLimit))

\* planSlug of generateAutoDeploymentConfig
planSlug(title) == substring(replaceNonAlphanumeric(toLowerCase(title)), SlugLimit)

\* ------------------------------------------------ App: ticking a sub-task
\* App renders PlanVisualization, and with it the check boxes, while no error
\* message is set.
ToggleRecord(step, j, completed) ==
    [step |-> step, j |-> j, completed |-> completed, pc |-> "update", failed |-> FALSE]

\* Faulty variant: the local flag follows the click, before the update answers.
handleToggleSubTask_Optimistic ==
    /\ ~appError
    /\ Len(toggles) < MaxToggles
    /\ \E step \in DOMAIN subTasks :
          \E j \in DOMAIN subTasks[step] :
              /\ toggles' = Append(toggles, ToggleRecord(step, j, ~subTasks[step][j]))
              /\ subTasks' = [subTasks EXCEPT ![step][j] = ~subTasks[step][j]]
    /\ UNCHANGED <<plans, uiVars, runs, calls, dbVars, planVars, edgeVars, goalVars,
                   subTasksTable, appError>>

\* handleToggleSubTask(subTaskId, completed) up to its await: the update of
\* sub_tasks is sent.  The check box of sub-task j of a step passes
\* !subTask.completed.
handleToggleSubTask ==
    /\ ~appError
    /\ Len(toggles) < MaxToggles
    /\ \E step \in DOMAIN subTasks :
          \E j \in DOMAIN subTasks[step] :
              toggles' = Append(toggles, ToggleRecord(step, j, ~subTasks[step][j]))
    /\ UNCHANGED <<plans, uiVars, runs, calls, dbVars, planVars, edgeVars, goalVars,
                   subTasks, subTasksTable, appError>>

\* setSubTasks(prev => ...): the flag of the sub-task with the given id
SetCompleted(flags, step, j, completed) == [flags EXCEPT ![step][j] = completed]

\* The update of sub_tasks answers: on an error the message is shown and the
\* handler returns, otherwise the local state follows.
SubTaskUpdateResolves ==
    \E t \in 1..Len(toggles), resp \in WriteResponses :
        /\ toggles[t].pc = "update"
        /\ toggles' = [toggles EXCEPT ![t].pc = "done", ![t].failed = (resp.status # "ok")]
        /\ IF resp.status = "ok"
           THEN /\ subTasksTable' = SetCompleted(subTasksTable, toggles[t].step,
                                                 toggles[t].j, toggles[t].completed)
                /\ subTasks' = SetCompleted(subTasks, toggles[t].step, toggles[t].j,
                                            toggles[t].completed)
                /\ UNCHANGED appError
           ELSE /\ appError' = TRUE
                /\ UNCHANGED <<subTasks, subTasksTable>>
        /\ UNCHANGED <<plans, uiVars, runs, calls, dbVars, planVars, edgeVars, goalVars>>

\* ------------------------------------------------ App: submitting a goal
\* currentGoal = null
NoGoal == 0

\* The goal whose plan is shown at the start
ShownGoal == 1

\* An activation of handleGoalSubmit: the goal text, whether a user was signed
\* in, where it is suspended, the id of the saved goal, the tables it has sent
\* an insert to, and whether its catch block ran.
NewSubmit(goalText, authenticated) ==
    [goalText |-> goalText, authenticated |-> authenticated,
     pc |-> IF authenticated THEN "goal" ELSE "done", goal |-> NoGoal,
     inserts |-> IF authenticated THEN <<"user_goals">> ELSE <<>>, failed |-> FALSE]

\* Goal texts given to GoalInput: one of the travel template (4 steps), one
\* of the learning template (5 steps)
SubmittedGoals == {"Vacation trip", "learn to travel"}

\* GoalInput is rendered unless a goal with plans is shown.
GoalInputShown == ~appError /\ ~(currentGoal # NoGoal /\ plans > 0)

\* handleGoalSubmit(goalText) up to its first await.  GoalInput's handleSubmit
\* calls it only while isLoading (isGenerating) is false.
handleGoalSubmit ==
    /\ GoalInputShown
    /\ ~isGenerating
    /\ Len(submits) < MaxSubmits
    /\ \E goalText \in SubmittedGoals :
          submits' = Append(submits, NewSubmit(goalText, user))
    /\ IF user
       THEN /\ isGenerating' = TRUE
            /\ appError' = FALSE
            /\ UNCHANGED showAuthModal
       ELSE /\ showAuthModal' = TRUE
            /\ UNCHANGED <<isGenerating, appError>>
    /\ UNCHANGED <<plans, uiVars, runs, calls, dbVars, planVars, edgeVars, subTasks,
                   subTasksTable, toggles, user, currentGoal>>

\* Faulty variant: the saved goal is shown although a later insert failed.
FailGoalSubmit_ShowsGoal(s) ==
    /\ submits' = [submits EXCEPT ![s].pc = "done", ![s].failed = TRUE]
    /\ appError' = TRUE
    /\ isGenerating' = FALSE
    /\ currentGoal' = submits[s].goal
    /\ UNCHANGED <<plans, subTasks, subTasksTable>>

\* The catch and finally blocks of handleGoalSubmit
FailGoalSubmit(s) ==
    /\ submits' = [submits EXCEPT ![s].pc = "done", ![s].failed = TRUE]
    /\ appError' = TRUE
    /\ isGenerating' = FALSE
    /\ UNCHANGED <<currentGoal, plans, subTasks, subTasksTable>>

\* The id the next row of user_goals gets
NextGoalId ==
    ShownGoal + Cardinality({s \in 1..Len(submits) : submits[s].goal # NoGoal}) + 1

\* The insert into user_goals answers.
GoalInsertResolves ==
    \E s \in 1..Len(submits), resp \in WriteResponses :
        /\ submits[s].pc = "goal"
        /\ IF resp.status = "ok"
           THEN /\ submits' = [submits EXCEPT ![s].pc = "plans", ![s].goal = NextGoalId,
                                              ![s].inserts = Append(@, "task_plans")]
                /\ UNCHANGED <<appError, isGenerating, currentGoal, plans, subTasks,
                               subTasksTable>>
           ELSE FailGoalSubmit(s)
        /\ UNCHANGED <<uiVars, runs, calls, dbVars, planVars, edgeVars, toggles, user,
                       showAuthModal>>

\* allSubTasks.length: the sub-tasks generated for the saved plans
AllSubTasksCount(taskPlanOf) ==
    Cardinality(UNION {{<<index, j>> : j \in 1..Len(taskPlanOf.subTasks[index])} :
                          index \in DOMAIN taskPlanOf.subTasks})

\* The sub-task map of the saved sub-tasks, by plan; {} when none was saved
SubTasksByPlan(taskPlanOf, saved) ==
    IF saved
    THEN [step \in 1..Len(taskPlanOf.plans) |->
             [j \in 1..Len(taskPlanOf.subTasks[step - 1]) |->
                 taskPlanOf.subTasks[step - 1][j].completed]]
    ELSE <<>>

\* "Update UI" at the end of the try block, and the finally block
FinishGoalSubmit(s, taskPlanOf) ==
    /\ currentGoal' = submits[s].goal
    /\ plans' = Len(taskPlanOf.plans)
    /\ isGenerating' = FALSE
    /\ UNCHANGED appError

\* The insert into task_plans answers.
PlanInsertResolves ==
    \E s \in 1..Len(submits), resp \in WriteResponses :
        LET taskPlanOf == generateTaskPlan(submits[s].goalText)
        IN  /\ submits[s].pc = "plans"
            /\ IF resp.status # "ok"
               THEN FailGoalSubmit(s)
               ELSE IF AllSubTasksCount(taskPlanOf) > 0
               THEN /\ submits' = [submits EXCEPT ![s].pc = "subTasks",
                                                  ![s].inserts = Append(@, "sub_tasks")]
                    /\ UNCHANGED <<appError, isGenerating, currentGoal, plans, subTasks,
                                   subTasksTable>>
               ELSE /\ submits' = [submits EXCEPT ![s].pc = "done"]
                    /\ FinishGoalSubmit(s, taskPlanOf)
                    /\ UNCHANGED <<subTasks, subTasksTable>>
            /\ UNCHANGED <<uiVars, runs, calls, dbVars, planVars, edgeVars, toggles, user,
                           showAuthModal>>

\* The insert into sub_tasks answers; its error is logged only.
SubTaskInsertResolves ==
    \E s \in 1..Len(submits), resp \in WriteResponses :
        LET taskPlanOf == generateTaskPlan(submits[s].goalText)
        IN  /\ submits[s].pc = "subTasks"
            /\ submits' = [submits EXCEPT ![s].pc = "done"]
            /\ subTasks' = SubTasksByPlan(taskPlanOf, resp.status = "ok")
            /\ subTasksTable' = SubTasksByPlan(taskPlanOf, resp.status = "ok")
            /\ FinishGoalSubmit(s, taskPlanOf)
            /\ UNCHANGED <<uiVars, runs, calls, dbVars, planVars, edgeVars, toggles, user,
                           showAuthModal>>

\* The header's "Sign Out"; the effect on `user` clears the goal shown.
signOut ==
    /\ ~appError
    /\ user
    /\ user' = FALSE
    /\ currentGoal' = NoGoal
    /\ plans' = 0
    /\ subTasks' = <<>>
    /\ UNCHANGED <<uiVars, runs, calls, dbVars, planVars, edgeVars, subTasksTable, toggles,
                   appError, showAuthModal, isGenerating, submits>>

\* The header's "Sign In"
OpenAuthModal ==
    /\ ~appError
    /\ ~user
    /\ ~showAuthModal
    /\ showAuthModal' = TRUE
    /\ UNCHANGED <<plans, uiVars, runs, calls, dbVars, planVars, edgeVars, subTasks,
                   subTasksTable, toggles, appError, user, isGenerating, currentGoal,
                   submits>>

\* AuthModal's handleSubmit when signIn or signUp gave no error
AuthModalSignIn ==
    /\ ~appError
    /\ showAuthModal
    /\ ~user
    /\ user' = TRUE
    /\ showAuthModal' = FALSE
    /\ UNCHANGED <<plans, uiVars, runs, calls, dbVars, planVars, edgeVars, subTasks,
                   subTasksTable, toggles, appError, isGenerating, currentGoal, submits>>

AuthModalClose ==
    /\ ~appError
    /\ showAuthModal
    /\ showAuthModal' = FALSE
    /\ UNCHANGED <<plans, uiVars, runs, calls, dbVars, planVars, edgeVars, subTasks,
                   subTasksTable, toggles, appError, user, isGenerating, currentGoal,
                   submits>>

\* "Reload Application" of the error screen: App starts again with the
\* session of the signed-in user; what was suspended is gone.
ReloadApplication ==
    /\ appError
    /\ appError' = FALSE
    /\ showAuthModal' = FALSE
    /\ isGenerating' = FALSE
    /\ currentGoal' = NoGoal
    /\ plans' = 0
    /\ subTasks' = <<>>
    /\ submits' = [s \in 1..Len(submits) |-> [submits[s] EXCEPT !.pc = "done"]]
    /\ UNCHANGED <<uiVars, runs, calls, dbVars, planVars, edgeVars, subTasksTable, toggles,
                   user>>

\* ----------------------------------------- the research-agent edge function
Result(source, item, score) == [source |-> source, item |-> item, relevance_score |-> score]

TopicLimit == 3

\* searchDuckDuckGo: the abstract when the answer has one, and the first
\* three related topics; nothing when the request fails
searchDuckDuckGo(abstract, topics) ==
    (IF abstract THEN <<Result("duckduckgo", 0, 8)>> ELSE <<>>)
    \o [i \in 1..(IF topics <= TopicLimit THEN topics ELSE TopicLimit) |->
            Result("duckduckgo", i, 6)]

\* generateDomainSpecificContent for reddit.com, stackoverflow.com,
\* medium.com and dev.to
DomainScores == <<7, 9, 8, 7>>

searchSpecificDomains(depth) ==
    [i \in 1..DomainCount(depth) |-> Result("domain", i, DomainScores[i])]

searchWikipedia(extract) == IF extract THEN <<Result("wikipedia", 1, 7)>> ELSE <<>>

\* Math.min(9, Math.floor(repo.stargazers_count / 1000) + 5)
repoScore(stars) == IF (stars \div 1000) + 5 <= 9 THEN (stars \div 1000) + 5 ELSE 9

searchGitHub(repos) == [i \in 1..Len(repos) |-> Result("github", i, repoScore(repos[i]))]

searchNews == <<Result("news", 1, 6)>>

\* results.push(...) of the five methods, in the order of the calls
Collected(depth, answers) ==
    searchDuckDuckGo(answers.abstract, answers.topics)
    \o searchSpecificDomains(depth)
    \o searchWikipedia(answers.extract)
    \o (IF answers.isCodeRelated THEN searchGitHub(answers.repos) ELSE <<>>)
    \o searchNews

\* x placed behind every result whose score is not lower: the position a
\* stable sort with (a, b) => b.relevance_score - a.relevance_score gives the
\* last element of a list
InsertByRelevance(sorted, x) ==
    LET ahead == Cardinality({j \in 1..Len(sorted) :
                                 sorted[j].relevance_score >= x.relevance_score})
    IN  SubSeq(sorted, 1, ahead) \o <<x>> \o SubSeq(sorted, ahead + 1, Len(sorted))

RECURSIVE sortByRelevance(_)
sortByRelevance(list) ==
    IF Len(list) = 0
    THEN <<>>
    ELSE InsertByRelevance(sortByRelevance(SubSeq(list, 1, Len(list) - 1)), list[Len(list)])

\* Array.prototype.slice(0, end)
slice(list, end) == IF Len(list) <= end THEN list ELSE SubSeq(list, 1, end)

\* Faulty variant: the list is cut before it is sorted.
edgeConductResearch_SlicesFirst(depth, found) ==
    sortByRelevance(slice(found, maxResults(depth)))

\* conductResearch of the edge function: sort by relevance, limit by depth
edgeConductResearch(depth, found) == slice(sortByRelevance(found), maxResults(depth))

\* -------------------------------- conductResearch: the rows made of an answer
Larger(a, b) == IF a >= b THEN a ELSE b

Smaller(a, b) == IF a <= b THEN a ELSE b

\* Faulty variant: a score of zero is not replaced by the default.
relevanceScore_NoDefault(result) ==
    IF "relevance_score" \in DOMAIN result
    THEN Smaller(10, Larger(1, result.relevance_score))
    ELSE 5

\* Math.min(10, Math.max(1, result.relevance_score || 5))
relevanceScore(result) ==
    LET given == IF "relevance_score" \in DOMAIN result /\ result.relevance_score # 0
                 THEN result.relevance_score
                 ELSE 5
    IN  Smaller(10, Larger(1, given))

\* ------------------------------------------------------------ specification
NoTaskPlan == [plans |-> <<>>, subTasks |-> <<>>]

\* no slug derived yet ("?" is in no slug)
NoSlug == "?"

Init ==
    /\ plans \in 1..MaxSteps
    /\ showAutoStartModal = FALSE
    /\ isAutoRunning = FALSE
    /\ currentAutoTask = NoTask
    /\ currentAutoPhase = "null"
    /\ startedTasks = {}
    /\ completedAutoTasks = {}
    /\ autoPreferences = <<>>
    /\ runs = <<>>
    /\ calls = <<>>
    /\ requests = <<>>
    /\ results = <<>>
    /\ goal = ""
    /\ taskPlan = NoTaskPlan
    /\ taskPlanAgain = NoTaskPlan
    /\ planTitle = ""
    /\ subTaskList = <<>>
    /\ slug = NoSlug
    /\ subTasks = [step \in 1..plans |-> [j \in 1..MaxSubTasks |-> FALSE]]
    /\ subTasksTable = subTasks
    /\ toggles = <<>>
    /\ appError = FALSE
    /\ user = TRUE
    /\ showAuthModal = FALSE
    /\ isGenerating = FALSE
    /\ currentGoal = ShownGoal
    /\ submits = <<>>
    /\ edgeDepth = "detailed"
    /\ edgeFound = <<>>
    /\ edgeResults = <<>>
    /\ incomingResults = <<>>
    /\ resultsToInsert = <<>>

Next ==
    \/ ToolbarButtonClick
    \/ AutoStartModalClose
    \/ AutoStartModalSubmit
    \/ handleResearch
    \/ handleExecution
    \/ handleDeployment
    \/ SupabaseResolves
    \/ TimeoutFires

Spec == Init /\ [][Next]_vars

\* ------------------------------------------ App and the runner, no agent modal
NextApp ==
    \/ handleToggleSubTask
    \/ SubTaskUpdateResolves
    \/ ToolbarButtonClick
    \/ AutoStartModalClose
    \/ AutoStartModalSubmit

SpecApp == Init /\ [][NextApp]_vars

\* ------------------------------------------ App: goals and sessions
NextGoal ==
    \/ handleGoalSubmit
    \/ GoalInsertResolves
    \/ PlanInsertResolves
    \/ SubTaskInsertResolves
    \/ signOut
    \/ OpenAuthModal
    \/ AuthModalSignIn
    \/ AuthModalClose
    \/ ReloadApplication

SpecGoal == Init /\ [][NextGoal]_vars

\* ------------------------------------------ planningService on its own
\* Texts of at most n of the words, separated by blanks.
RECURSIVE Phrases(_, _)
Phrases(words, n) ==
    IF n = 0
    THEN {""}
    ELSE LET shorter == Phrases(words, n - 1)
         IN  shorter \cup {IF p = "" THEN w ELSE p \o " " \o w : p \in shorter, w \in words}

GoalWords ==
    {"Business", "startup", "COMPANY", "learn", "Study", "development", "travel",
     "Vacation", "trip", "strip", "event", "prevent", "party", "fundraising",
     "marathon", "a"}

GoalTexts ==
    Phrases(GoalWords, MaxWords)
    \cup {"learn to travel", "Learn web development in 6 months",
          "Plan a Trip to a Business Event"}

TitleWords ==
    {"Market Research", "VALIDATION", "Business Plan", "Foundation", "prerequisites",
     "Destination", "research", "Market", "Planning"}

TemplateTitles ==
    {pl.title : pl \in {tpl[j] : tpl \in {BusinessPlans, LearningPlans, EventPlans,
                                          GenericPlans},
                                 j \in 1..5}}
    \cup {TravelPlans[j].title : j \in 1..Len(TravelPlans)}

\* Titles with digits, punctuation and runs of blanks, shorter and longer than
\* the slug limit
PunctuatedTitles ==
    {"R&D", "A_b-C.9", "Web 2.0  App", "Phase 2: Q3/2025 Launch -- Marketing & Promotion!",
     "0123456789012345678901234567890123456789"}

TitleTexts == Phrases(TitleWords, MaxWords) \cup TemplateTitles \cup PunctuatedTitles

Blank ==
    /\ goal = "" /\ taskPlan = NoTaskPlan /\ taskPlanAgain = NoTaskPlan
    /\ planTitle = "" /\ subTaskList = <<>> /\ slug = NoSlug

\* A goal text is given; nothing is generated for it yet.
EnterGoal ==
    /\ Blank
    /\ \E text \in GoalTexts : goal' = text
    /\ taskPlan' = NoTaskPlan
    /\ taskPlanAgain' = NoTaskPlan
    /\ planTitle' = ""
    /\ subTaskList' = <<>>
    /\ slug' = NoSlug
    /\ UNCHANGED <<appVars, edgeVars, plans, uiVars, runs, calls, dbVars>>

ApplyGenerateTaskPlan ==
    /\ taskPlan = NoTaskPlan
    /\ planTitle = "" /\ subTaskList = <<>>
    /\ taskPlan' = generateTaskPlan(goal)
    /\ UNCHANGED <<appVars, edgeVars, plans, uiVars, runs, calls, dbVars, goal, taskPlanAgain,
                   planTitle, subTaskList, slug>>

\* The same goal text is submitted once more.
ApplyGenerateTaskPlanAgain ==
    /\ taskPlan # NoTaskPlan
    /\ taskPlanAgain = NoTaskPlan
    /\ taskPlanAgain' = generateTaskPlan(goal)
    /\ UNCHANGED <<appVars, edgeVars, plans, uiVars, runs, calls, dbVars, goal, taskPlan,
                   planTitle, subTaskList, slug>>

EnterTitle ==
    /\ Blank
    /\ \E text \in TitleTexts : planTitle' = text
    /\ subTaskList' = <<>>
    /\ slug' = NoSlug
    /\ goal' = ""
    /\ taskPlan' = NoTaskPlan
    /\ taskPlanAgain' = NoTaskPlan
    /\ UNCHANGED <<appVars, edgeVars, plans, uiVars, runs, calls, dbVars>>

ApplyGenerateSubTasks ==
    /\ subTaskList = <<>>
    /\ goal = "" /\ taskPlan = NoTaskPlan
    /\ subTaskList' = generateSubTasks(planTitle, "")
    /\ UNCHANGED <<appVars, edgeVars, plans, uiVars, runs, calls, dbVars, goal, taskPlan,
                   taskPlanAgain, planTitle, slug>>

\* generateAutoDeploymentConfig(plan, provider): the slug of plan.title
ApplyGenerateAutoDeploymentConfig ==
    /\ slug = NoSlug
    /\ goal = "" /\ taskPlan = NoTaskPlan
    /\ slug' = planSlug(planTitle)
    /\ UNCHANGED <<appVars, edgeVars, plans, uiVars, runs, calls, dbVars, goal, taskPlan,
                   taskPlanAgain, planTitle, subTaskList>>

StartOver ==
    /\ ~Blank
    /\ goal' = ""
    /\ taskPlan' = NoTaskPlan
    /\ taskPlanAgain' = NoTaskPlan
    /\ planTitle' = ""
    /\ subTaskList' = <<>>
    /\ slug' = NoSlug
    /\ UNCHANGED <<appVars, edgeVars, plans, uiVars, runs, calls, dbVars>>

NextPlan ==
    \/ StartOver
    \/ EnterGoal
    \/ ApplyGenerateTaskPlan
    \/ ApplyGenerateTaskPlanAgain
    \/ EnterTitle
    \/ ApplyGenerateSubTasks
    \/ ApplyGenerateAutoDeploymentConfig

SpecPlan == Init /\ [][NextPlan]_vars

\* ------------------------------------------ the research answer on its own
\* A depth outside the three the client sends stands for "any other".
EdgeDepths == ResearchDepths \cup {"exhaustive"}

StarCounts == {0, 1500, 12000}

RepoLists == UNION {[1..n -> StarCounts] : n \in 0..MaxRepos}

\* What the external APIs answer to one request: a DuckDuckGo abstract and
\* related topics, a Wikipedia extract, and, for a code-related query, GitHub
\* repositories with their stars.  A failed request answers like an empty one.
EdgeAnswers ==
    [abstract : BOOLEAN, topics : 0..TopicLimit, extract : BOOLEAN,
     isCodeRelated : BOOLEAN, repos : RepoLists]

\* The edge function serves one request.
ServeResearch ==
    /\ edgeFound = <<>> /\ incomingResults = <<>>
    /\ \E depth \in EdgeDepths, answers \in EdgeAnswers :
          /\ edgeDepth' = depth
          /\ edgeFound' = Collected(depth, answers)
          /\ edgeResults' = edgeConductResearch(depth, Collected(depth, answers))
    /\ UNCHANGED <<plans, uiVars, runs, calls, dbVars, planVars, appVars, incomingResults,
                   resultsToInsert>>

\* Scores an answer may carry: in and out of 1..10, zero, or none at all
IncomingScores == (0 - 2)..12

IncomingResult(item) ==
    {[source |-> "answer", item |-> item]}
    \cup {Result("answer", item, score) : score \in IncomingScores}

IncomingLists ==
    UNION {{list \in [1..n -> UNION {IncomingResult(i) : i \in 1..n}] :
               \A i \in 1..n : list[i].item = i} : n \in 1..MaxIncoming}

\* data.results.map(...) of conductResearch
MapResults(list) ==
    [i \in 1..Len(list) |->
        [source |-> list[i].source, item |-> list[i].item,
         relevance_score |-> relevanceScore(list[i])]]

\* conductResearch makes the rows of an answer with any scores.
MapAnswer ==
    /\ edgeFound = <<>> /\ incomingResults = <<>>
    /\ \E list \in IncomingLists :
          /\ incomingResults' = list
          /\ resultsToInsert' = MapResults(list)
    /\ UNCHANGED <<plans, uiVars, runs, calls, dbVars, planVars, appVars, edgeDepth,
                   edgeFound, edgeResults>>

\* conductResearch makes the rows of what the edge function returned.
MapEdgeResults ==
    /\ edgeResults # <<>> /\ incomingResults = <<>>
    /\ incomingResults' = edgeResults
    /\ resultsToInsert' = MapResults(edgeResults)
    /\ UNCHANGED <<plans, uiVars, runs, calls, dbVars, planVars, appVars, edgeDepth,
                   edgeFound, edgeResults>>

NextResearch ==
    \/ ServeResearch
    \/ MapAnswer
    \/ MapEdgeResults

SpecResearch == Init /\ [][NextResearch]_vars

\* ===================================================================== claims
Idle == ~isAutoRunning /\ currentAutoTask = NoTask /\ currentAutoPhase = "null"

AllPhasesEnabled(preferences) ==
    /\ preferences.enableResearch
    /\ preferences.enableExecution
    /\ preferences.enableDeployment

\* research(1), execution(1), deployment(1), research(2), ... deployment(n)
StepMajorOrder(n) ==
    [j \in 1..(3 * n) |-> <<((j - 1) \div 3) + 1, Phases[((j - 1) % 3) + 1]>>]

CallsOf(r) == {k \in 1..Len(calls) : calls[k].caller = r}

Threw(r, step, phase) ==
    \E k \in CallsOf(r) :
        calls[k].plan = step /\ calls[k].domain = phase /\ calls[k].outcome = "threw"

Invoked(r, step, phase) ==
    \E j \in 1..Len(runs[r].log) : runs[r].log[j] = <<step, phase>>

\* A run that has ended, was started with all three phases enabled, saw no
\* recorder throw and no stop signal.
CleanFullRun(r) ==
    /\ runs[r].pc = "done"
    /\ AllPhasesEnabled(runs[r].preferences)
    /\ ~runs[r].stopped
    /\ \A k \in CallsOf(r) : calls[k].outcome # "threw"

\* C1: a run over N plan steps with research, execution and deployment
\* enabled, no recorder throwing and no stop signal makes exactly 3*N recorder
\* invocations, in step-major, phase-minor order.
C1_StepMajorInvocations ==
    \A r \in 1..Len(runs) : CleanFullRun(r) => runs[r].log = StepMajorOrder(plans)

\* C2: once a recorder invocation that created its request row has resolved
\* or rejected, the request's status is completed or failed, never
\* in_progress, whatever the responses to its writes were.
C2_TerminalStatusOnceSettled ==
    \A k \in 1..Len(calls) :
        (calls[k].outcome # "running" /\ calls[k].req > 0)
            => requests[calls[k].req].status \in {"completed", "failed"}

C4_RunEndsIdle ==
    \A r \in 1..Len(runs) : runs[r].pc = "done" /\ Idle

C4_Witness ==
    /\ Len(runs) >= 1
    /\ runs[1].pc = "done"
    /\ AllPhasesEnabled(runs[1].preferences)
    /\ startedTasks = 1..plans
    /\ plans >= 2
    /\ Idle

\* C7 as claimed: a recorder throws to its caller only when the write that
\* creates the request fails.
C7_ThrowsOnlyOnCreationFailure ==
    \A k \in 1..Len(calls) : calls[k].outcome = "threw" => calls[k].req = 0

\* C7, amended: a settled recorder invocation threw exactly when the request
\* creation failed, or it is executeTask and its catch block ran (content
\* generation or result persistence failed), or it is deployProject, its
\* catch block ran and the insert of the error result returned no row;
\* conductResearch never throws once its request row exists.
C7_ThrowConditions ==
    \A k \in 1..Len(calls) :
        calls[k].outcome # "running"
            => (calls[k].outcome = "threw"
                  <=> \/ calls[k].req = 0
                      \/ calls[k].caught /\ calls[k].domain = "execution"
                      \/ calls[k].caught /\ calls[k].domain = "deployment"
                            /\ ~calls[k].errorData)

C7_Witness ==
    \E k \in 1..Len(calls) :
        /\ calls[k].domain = "execution"
        /\ calls[k].req > 0
        /\ calls[k].outcome = "threw"
        /\ requests[calls[k].req].status = "failed"

\* ------------------------------------------------- planningService claims
PlanKeywordGroups ==
    << {"business", "startup", "company"}, {"learn", "study", "development"},
       {"travel", "vacation", "trip"}, {"event", "party", "fundrais"} >>

SubTaskKeywordGroups ==
    << {"market research", "validation"}, {"business plan"},
       {"foundation", "prerequisite"}, {"destination", "research"} >>

GroupMatches(text, group) == \E keyword \in group : includes(toLowerCase(text), keyword)

\* The first group, in list order, with a keyword in the text; 0 when none has.
FirstGroup(text, groups) ==
    IF \E j \in 1..Len(groups) : GroupMatches(text, groups[j])
    THEN CHOOSE j \in 1..Len(groups) :
            /\ GroupMatches(text, groups[j])
            /\ \A k \in 1..(j - 1) : ~GroupMatches(text, groups[k])
    ELSE 0

PlanTemplateOf(group) ==
    CASE group = 1 -> BusinessPlans
      [] group = 2 -> LearningPlans
      [] group = 3 -> TravelPlans
      [] group = 4 -> EventPlans
      [] OTHER -> GenericPlans

SubTaskTemplateOf(group) ==
    CASE group = 1 -> MarketResearchTasks
      [] group = 2 -> BusinessPlanTasks
      [] group = 3 -> FoundationTasks
      [] group = 4 -> DestinationTasks
      [] OTHER -> GenericTasks

Ordered(list, n) == Len(list) = n /\ \A j \in 1..n : list[j].sequence_order = j

\* C8: the plan template returned for a goal is that of the first keyword
\* group, in the order business, learn, travel, event, that has a keyword as
\* a substring of the lower-cased goal, and the generic template when no
\* group has one.
C8_PlanTemplateIsFirstMatch ==
    taskPlan # NoTaskPlan
        => taskPlan.plans = PlanTemplateOf(FirstGroup(goal, PlanKeywordGroups))

C8_Witness ==
    /\ goal = "learn to travel"
    /\ taskPlan # NoTaskPlan
    /\ taskPlan.plans = LearningPlans

\* C9 as claimed: for every goal generateTaskPlan returns exactly five plan
\* steps with sequence_order 1..5 and five sub-tasks with sequence_order 1..5
\* for each of them.
C9_FiveStepsFiveSubTasks ==
    taskPlan # NoTaskPlan
        => /\ Ordered(taskPlan.plans, 5)
           /\ DOMAIN taskPlan.subTasks = 0..4
           /\ \A index \in 0..4 : Ordered(taskPlan.subTasks[index], 5)

\* C9, amended: generateTaskPlan returns five plan steps with sequence_order
\* 1..5, except for a goal whose first matching group is travel, for which it
\* returns four with sequence_order 1..4; each step has exactly five
\* sub-tasks with sequence_order 1..5, keyed by the step's index from 0.
C9_StepAndSubTaskCounts ==
    taskPlan # NoTaskPlan
        => LET n == IF FirstGroup(goal, PlanKeywordGroups) = 3 THEN 4 ELSE 5
           IN  /\ Ordered(taskPlan.plans, n)
               /\ DOMAIN taskPlan.subTasks = 0..(n - 1)
               /\ \A index \in 0..(n - 1) : Ordered(taskPlan.subTasks[index], 5)

C9_Witness ==
    /\ goal = "Vacation trip"
    /\ taskPlan # NoTaskPlan
    /\ Len(taskPlan.plans) = 4

\* C10: the sub-task template returned for a step title is that of the first
\* keyword group, in the order market research/validation, business plan,
\* foundation/prerequisite, destination/research, that has a keyword as a
\* substring of the lower-cased title, the generic one when none has; every
\* sub-task returned has completed = false.
C10_SubTaskTemplateIsFirstMatch ==
    subTaskList # <<>>
        => /\ subTaskList = SubTaskTemplateOf(FirstGroup(planTitle, SubTaskKeywordGroups))
           /\ \A j \in 1..Len(subTaskList) : ~subTaskList[j].completed

C10_Witness ==
    /\ planTitle = "Destination Market Research"
    /\ subTaskList = MarketResearchTasks

\* ------------------------------------------------------ the deployment slug
SlugAlphabet == {CharAt(LowerCase \o Digits \o "-", i) : i \in 1..37}

Letters == {CharAt(UpperCase \o LowerCase, i) : i \in 1..52}

DigitChars == {CharAt(Digits, i) : i \in 1..10}

Shorter(a, b) == IF a <= b THEN a ELSE b

\* C11: the slug of a step title has length min(30, length of the title),
\* consists of a-z, 0-9 and '-' only, and its i-th character is the
\* lower-cased i-th character of the title when that is a letter or a digit
\* and '-' otherwise, position by position (runs are not collapsed).
C11_SlugOfTitle ==
    slug # NoSlug
        => /\ Len(slug) = Shorter(SlugLimit, Len(planTitle))
           /\ \A i \in 1..Len(slug) :
                 /\ CharAt(slug, i) \in SlugAlphabet
                 /\ CharAt(slug, i) =
                        IF CharAt(planTitle, i) \in Letters
                        THEN LowerChar(CharAt(planTitle, i))
                        ELSE IF CharAt(planTitle, i) \in DigitChars
                        THEN CharAt(planTitle, i)
                        ELSE "-"

C11_Witness ==
    /\ planTitle = "Destination Research & Planning"
    /\ slug = "destination-research---plannin"

\* --------------------------------------------------- rows of failure paths
RowsOf(id) == {j \in 1..Len(results) : results[j].request_id = id}

Settled(k) == calls[k].outcome # "running"

\* The catch block of the recorder ran for a request that exists.
FailurePath(k) == Settled(k) /\ calls[k].req > 0 /\ calls[k].caught

\* C12 as claimed: a settled recorder invocation whose request is marked
\* failed has left exactly one result row tagged to the request, and it is a
\* failure record.
C12_OneFailureRecord ==
    \A k \in 1..Len(calls) :
        (Settled(k) /\ calls[k].req > 0 /\ requests[calls[k].req].status = "failed")
            => /\ Cardinality(RowsOf(calls[k].req)) = 1
               /\ \A j \in RowsOf(calls[k].req) : results[j].kind = "error"

\* C12, amended: a settled invocation whose catch block ran has left, tagged
\* to its request, for executeTask at most one failure record, for
\* deployProject one failure record when the insert of it succeeded and none
\* otherwise, and for conductResearch no failure record but three fallback
\* rows when the insert of them succeeded and none otherwise.
C12_FailureRows ==
    \A k \in 1..Len(calls) :
        FailurePath(k)
            => LET rows == RowsOf(calls[k].req)
                   n == Cardinality(rows)
               IN  CASE calls[k].domain = "research" ->
                            /\ \A j \in rows : results[j].kind = "fallback"
                            /\ n = IF calls[k].ret = "fallbackSaved" THEN 3 ELSE 0
                     [] calls[k].domain = "execution" ->
                            /\ \A j \in rows : results[j].kind = "error"
                            /\ n <= 1
                     [] calls[k].domain = "deployment" ->
                            /\ \A j \in rows : results[j].kind = "error"
                            /\ n = IF calls[k].errorData THEN 1 ELSE 0

C12_Witness ==
    \E k \in 1..Len(calls) :
        /\ FailurePath(k)
        /\ calls[k].domain = "research"
        /\ requests[calls[k].req].status = "failed"
        /\ Cardinality(RowsOf(calls[k].req)) = 3

\* ------------------------------------------- failure of the result insert
\* The insert of the generated result rows answered with an error.
SaveFailed(k) == Settled(k) /\ calls[k].saveFailed

\* C13 as claimed: when the insert of the generated rows fails, the recorder
\* does not throw and returns the generated results (ret is "saved" for the
\* stored generated rows; no return value of a recorder stands for generated
\* rows that were not stored, since no recorder returns them).
C13_ReturnsGeneratedResults ==
    \A k \in 1..Len(calls) :
        SaveFailed(k)
            => calls[k].outcome = "returned"
               /\ calls[k].ret \notin {"fallbackSaved", "fallbackMemory", "errorRow"}

\* C13, amended: when the insert of the generated rows fails, conductResearch
\* returns fallback results in place of the generated ones (the stored
\* fallback rows, or the in-memory ones when their insert fails too),
\* executeTask throws, and deployProject returns the stored failure record,
\* or throws when there is none.
C13_AfterFailedInsert ==
    \A k \in 1..Len(calls) :
        SaveFailed(k)
            => CASE calls[k].domain = "research" ->
                        /\ calls[k].outcome = "returned"
                        /\ calls[k].ret \in {"fallbackSaved", "fallbackMemory"}
                        /\ calls[k].ret = "fallbackSaved"
                              <=> Cardinality(RowsOf(calls[k].req)) > 0
                 [] calls[k].domain = "execution" -> calls[k].outcome = "threw"
                 [] calls[k].domain = "deployment" ->
                        IF calls[k].errorData
                        THEN calls[k].outcome = "returned" /\ calls[k].ret = "errorRow"
                        ELSE calls[k].outcome = "threw"

C13_Witness ==
    \E k \in 1..Len(calls) :
        /\ SaveFailed(k)
        /\ calls[k].domain = "research"
        /\ calls[k].ret = "fallbackMemory"
        /\ RowsOf(calls[k].req) = {}

\* ------------------------------------------------- the status of a request
\* C14: in every step, a request row that is new has status in_progress, and
\* a row that existed keeps its status or goes from in_progress to completed
\* or to failed; so a status changes at most once and never after it is
\* completed or failed, and no row is removed.
C14_StatusLifecycle ==
    [][/\ Len(requests') >= Len(requests)
       /\ \A id \in 1..Len(requests') :
            IF id > Len(requests)
            THEN requests'[id].status = "in_progress"
            ELSE \/ requests'[id].status = requests[id].status
                 \/ /\ requests[id].status = "in_progress"
                    /\ requests'[id].status \in {"completed", "failed"}]_vars

C14_Witness ==
    /\ Len(requests) = 2
    /\ requests[1].status = "completed"
    /\ requests[2].status = "failed"
    /\ \A k \in 1..Len(calls) : Settled(k)

\* ------------------------------------------------- the frame of a run
\* C15: a step in which a workflow run starts or goes on leaves the plan
\* steps and the sub-tasks as they were: the number of plan steps, the
\* completed flag of every sub-task in App's state, and the completed column
\* of sub_tasks.
C15_RunLeavesPlanAndSubTasks ==
    [][runs' # runs
          => /\ plans' = plans
             /\ subTasks' = subTasks
             /\ subTasksTable' = subTasksTable]_vars

C15_Witness ==
    /\ Len(runs) = 1
    /\ runs[1].pc = "done"
    /\ \E step \in 1..plans, j \in 1..MaxSubTasks :
          subTasks[step][j] /\ subTasksTable[step][j]
    /\ \E t \in 1..Len(toggles) : toggles[t].pc = "update"

AdvertisedRange(depth) ==
    CASE depth = "basic" -> 3..5
      [] depth = "comprehensive" -> 8..12
      [] OTHER -> 5..8

\* C17: a settled research request has a number of result rows within the
\* range advertised for its depth.
C17_RowsWithinAdvertisedRange ==
    \A k \in 1..Len(calls) :
        (Settled(k) /\ calls[k].domain = "research" /\ calls[k].req > 0)
            => Cardinality(RowsOf(calls[k].req)) \in AdvertisedRange(calls[k].arg)

\* ------------------------------------------------ the delay after a phase
Delayed(r, step, phase) ==
    \E j \in 1..Len(runs[r].delays) : runs[r].delays[j] = <<step, phase>>

\* C18: in a run that has ended without a stop signal, the runner has
\* suspended for autoProgressDelay after every enabled phase of every step,
\* whatever the outcome of the phase's recorder call.
C18_DelayAfterEveryPhase ==
    \A r \in 1..Len(runs) :
        (runs[r].pc = "done" /\ ~runs[r].stopped)
            => \A step \in 1..plans, p \in 1..Len(Phases) :
                  Enabled(runs[r].preferences, Phases[p]) => Delayed(r, step, Phases[p])

C21_EveryStepAutoCompleted ==
    \A r \in 1..Len(runs) :
        (runs[r].pc = "done" /\ ~runs[r].stopped) => completedAutoTasks = 1..plans

\* ------------------------------------------------ the pause between steps
Paused(r, step) == \E j \in 1..Len(runs[r].pauses) : runs[r].pauses[j] = step

\* C22: in a run that has ended without a stop signal, the runner has
\* suspended for the fixed two seconds after step i exactly when
\* pauseBetweenTasks is set and step i is not the last step.
C22_PauseExactlyBetweenSteps ==
    \A r \in 1..Len(runs) :
        (runs[r].pc = "done" /\ ~runs[r].stopped)
            => \A step \in 1..plans :
                  Paused(r, step) <=> (runs[r].preferences.pauseBetweenTasks /\ step # plans)

\* ------------------------------------------------ the research fallback
\* C23: a settled conductResearch whose request row exists and whose edge
\* function call or result insert failed has returned, not thrown, three
\* fallback results: the stored rows when the insert of them succeeded, and
\* the generated ones, with no row stored, when it failed.
C23_FallbackAlwaysReturned ==
    \A k \in 1..Len(calls) :
        (FailurePath(k) /\ calls[k].domain = "research")
            => /\ calls[k].outcome = "returned"
               /\ calls[k].ret \in {"fallbackSaved", "fallbackMemory"}
               /\ calls[k].n = 3
               /\ Cardinality(RowsOf(calls[k].req))
                     = IF calls[k].ret = "fallbackSaved" THEN 3 ELSE 0

C23_Witness ==
    \E k \in 1..Len(calls) :
        /\ FailurePath(k)
        /\ calls[k].domain = "research"
        /\ ~calls[k].saveFailed
        /\ calls[k].outcome = "returned"
        /\ calls[k].ret = "fallbackMemory"
        /\ requests[calls[k].req].status = "failed"

\* ------------------------------------------------ a failed request creation
\* C24: the step in which the creation of a recorder's request fails ends the
\* invocation with a throw, content generation not started and no result
\* counted, and leaves the request and result tables as they were; an
\* invocation without a request is at its creation or at its end.
C24_FailedCreationWritesNothing ==
    [][/\ \A k \in 1..Len(calls) :
             (calls[k].pc = "create" /\ calls'[k].pc # "create" /\ calls'[k].req = 0)
                => /\ calls'[k].pc = "done"
                   /\ calls'[k].outcome = "threw"
                   /\ calls'[k].n = 0
                   /\ ~calls'[k].caught
                   /\ requests' = requests
                   /\ results' = results
       /\ \A k \in 1..Len(calls') :
             calls'[k].req = 0 => calls'[k].pc \in {"create", "done"}]_vars

C24_Witness ==
    /\ Len(calls) = 2
    /\ calls[1].outcome = "returned" /\ calls[1].req = 1
    /\ calls[2].outcome = "threw" /\ calls[2].req = 0
    /\ calls[2].domain = "deployment"
    /\ Len(requests) = 1
    /\ Len(results) >= 1

\* ------------------------------------------------ status and result rows
\* C25: an execution or deployment request whose status is completed or
\* failed is completed exactly when it has at least one result row and every
\* result row tagged to it has success = true.
C25_StatusAgreesWithRows ==
    \A id \in 1..Len(requests) :
        (requests[id].domain \in {"execution", "deployment"}
            /\ requests[id].status \in {"completed", "failed"})
            => (requests[id].status = "completed"
                  <=> /\ RowsOf(id) # {}
                      /\ \A j \in RowsOf(id) : results[j].success)

C25_Witness ==
    /\ Len(requests) = 2
    /\ requests[1].domain = "execution" /\ requests[1].status = "completed"
    /\ Cardinality(RowsOf(1)) = 2
    /\ requests[2].domain = "deployment" /\ requests[2].status = "failed"
    /\ Cardinality(RowsOf(2)) = 1
    /\ \A j \in RowsOf(2) : ~results[j].success

\* ------------------------------------------------ one run at a time
Active(r) == runs[r].pc # "done"

C27_StoredScoreInRange ==
    /\ Len(resultsToInsert) = Len(incomingResults)
    /\ \A i \in 1..Len(resultsToInsert) :
          LET stored == resultsToInsert[i].relevance_score
              given == incomingResults[i]
          IN  /\ stored \in 1..10
              /\ IF "relevance_score" \notin DOMAIN given THEN stored = 5
                 ELSE IF given.relevance_score = 0 THEN stored = 5
                 ELSE IF given.relevance_score > 10 THEN stored = 10
                 ELSE IF given.relevance_score < 1 THEN stored = 1
                 ELSE stored = given.relevance_score

C27_Witness ==
    /\ Len(incomingResults) = 2
    /\ "relevance_score" \notin DOMAIN incomingResults[1]
    /\ "relevance_score" \in DOMAIN incomingResults[2]
    /\ incomingResults[2].relevance_score = 12
    /\ resultsToInsert[1].relevance_score = 5
    /\ resultsToInsert[2].relevance_score = 10

\* ------------------------------------------------ the edge function's answer
Returned == {edgeResults[j] : j \in 1..Len(edgeResults)}

Omitted == {edgeFound[j] : j \in 1..Len(edgeFound)} \ Returned

CapOf(depth) == CASE depth = "basic" -> 3 [] depth = "detailed" -> 6 [] OTHER -> 10

\* C28: the edge function returns results it found, each once, at most 3 for
\* depth basic, 6 for detailed and 10 for any other depth, in non-increasing
\* order of relevance_score, and no result it left out has a higher score
\* than one it returned; it leaves one out only when the limit is reached.
C28_TopResultsInOrder ==
    edgeFound # <<>>
        => /\ Len(edgeResults) <= CapOf(edgeDepth)
           /\ Returned \subseteq {edgeFound[j] : j \in 1..Len(edgeFound)}
           /\ Cardinality(Returned) = Len(edgeResults)
           /\ \A j \in 1..(Len(edgeResults) - 1) :
                 edgeResults[j].relevance_score >= edgeResults[j + 1].relevance_score
           /\ \A o \in Omitted, r \in Returned : o.relevance_score <= r.relevance_score
           /\ Omitted # {} => Len(edgeResults) = CapOf(edgeDepth)

C28_Witness ==
    /\ edgeDepth = "basic"
    /\ Len(edgeFound) = 7
    /\ edgeFound[1].relevance_score = 8
    /\ Len(edgeResults) = 3
    /\ edgeResults[1].source = "domain"
    /\ edgeResults[1].relevance_score = 9
    /\ edgeResults[3].source = "github"
    /\ \E o \in Omitted : o.relevance_score = 8

\* ------------------------------------------------ ticking a sub-task
\* C29: a step changes the completed flags in App's state only when an update
\* of sub_tasks has just succeeded, and then only the flag of the sub-task
\* the update was for, to the value stored; a step in which an update fails
\* leaves the flags as they were.
C29_FlagFollowsStoredUpdate ==
    [][/\ subTasks' # subTasks
            => \E t \in 1..Len(toggles) :
                  /\ toggles[t].pc = "update"
                  /\ toggles'[t].pc = "done"
                  /\ ~toggles'[t].failed
                  /\ subTasks' = [subTasks EXCEPT ![toggles[t].step][toggles[t].j]
                                                      = toggles[t].completed]
                  /\ subTasksTable'[toggles[t].step][toggles[t].j] = toggles[t].completed
       /\ \A t \in 1..Len(toggles) :
             (toggles[t].pc = "update" /\ toggles'[t].failed)
                => subTasks' = subTasks /\ subTasksTable' = subTasksTable]_vars

C29_Witness ==
    /\ Len(toggles) = 2
    /\ toggles[1].pc = "done" /\ ~toggles[1].failed /\ toggles[1].completed
    /\ toggles[2].pc = "done" /\ toggles[2].failed /\ ~toggles[2].completed
    /\ toggles[1].step = toggles[2].step /\ toggles[1].j = toggles[2].j
    /\ subTasks[toggles[1].step][toggles[1].j]
    /\ subTasksTable = subTasks
    /\ appError

\* ------------------------------------------------ a goal that is not saved
\* C30: the step in which the insert of the goal or of the plans fails leaves
\* the current goal, the number of plan steps and the sub-task map as they
\* were and ends the handler with isGenerating false and no further insert; a
\* failed activation has sent an insert to user_goals only, or to user_goals
\* and task_plans; and an activation without a signed-in user has sent none
\* and has left isGenerating and the error message alone.
C30_FailedSubmitChangesNothing ==
    [][/\ \A s \in 1..Len(submits) :
             (submits[s].pc \in {"goal", "plans"} /\ submits'[s].failed)
                => /\ currentGoal' = currentGoal
                   /\ plans' = plans
                   /\ subTasks' = subTasks
                   /\ ~isGenerating'
                   /\ submits'[s].pc = "done"
                   /\ submits'[s].inserts = submits[s].inserts
       /\ \A s \in 1..Len(submits') :
             /\ submits'[s].failed
                   => /\ submits'[s].pc = "done"
                      /\ submits'[s].inserts
                            = IF submits'[s].goal = NoGoal
                              THEN <<"user_goals">>
                              ELSE <<"user_goals", "task_plans">>
             /\ ~submits'[s].authenticated
                   => submits'[s].inserts = <<>> /\ submits'[s].pc = "done"
       /\ (Len(submits') > Len(submits) /\ ~submits'[Len(submits')].authenticated)
             => /\ showAuthModal'
                /\ isGenerating' = isGenerating
                /\ appError' = appError
                /\ currentGoal' = currentGoal /\ plans' = plans /\ subTasks' = subTasks]_vars

C30_Witness ==
    /\ Len(submits) = 2
    /\ submits[1].failed
    /\ submits[1].inserts = <<"user_goals", "task_plans">>
    /\ ~submits[2].authenticated
    /\ submits[2].inserts = <<>>
    /\ currentGoal = NoGoal /\ plans = 0 /\ subTasks = <<>>
    /\ ~isGenerating
    /\ showAuthModal

====
